---- MODULE Spec2Model ----
(***************************************************************************)
(* Model of the per-core debugger session handle (CoreData / CoreHandle)   *)
(* of debugger/src/debugger/core_data.rs: status polling and DAP event     *)
(* emission, the hardware-breakpoint cache, and the RTT attach.            *)
(***************************************************************************)
EXTENDS Naturals, Integers, Sequences, FiniteSets, TLC

VARIABLES
    last_known_status,   \* CoreData.last_known_status
    all_cores_halted,    \* DebugAdapter.all_cores_halted
    statusLog,           \* the last two operations of the status tracker, oldest first
    breakpoints,         \* CoreData.breakpoints
    hw_breakpoints,      \* the addresses installed in the core's breakpoint units
    debug_info,          \* CoreData.debug_info
    bpLog,               \* the last operation of the breakpoint manager
    rtt_connection,      \* CoreData.rtt_connection
    rttLog               \* the last attach_to_rtt call

statusVars == <<last_known_status, all_cores_halted, statusLog>>

bpVars == <<breakpoints, hw_breakpoints, debug_info, bpLog>>

rttVars == <<rtt_connection, rttLog>>

vars == <<statusVars, bpVars, rttVars>>

\* the identifier the hardware interface reports for this core (core.id())
CoreId == 0

(***************************************************************************)
(* CoreStatus and HaltReason                                               *)
(***************************************************************************)
HaltReason == {"Step", "Breakpoint", "Request"}

Running == <<"Running">>
Sleeping == <<"Sleeping">>
LockedUp == <<"LockedUp">>
Unknown == <<"Unknown">>
Halted(reason) == <<"Halted", reason>>

CoreStatus == {Running, Sleeping, LockedUp, Unknown} \cup {Halted(r) : r \in HaltReason}

IsHalted(status) == status[1] = "Halted"

\* the result of core.status(): Ok(status) or Err(error)
ReadErr == <<"ReadErr">>

\* Err(Error::Other(..)) and the error of a failed send
OtherErr == <<"OtherErr">>
StatusRead == CoreStatus \cup {ReadErr}


(***************************************************************************)
(* Notifications the protocol layer delivered to the client                *)
(***************************************************************************)
\* a plausible slip: the event does not report all threads as continued
ContinuedEventOneThread == [type |-> "continued", all_threads |-> FALSE, thread_id |-> CoreId, pc |-> FALSE]

ContinuedEvent == [type |-> "continued", all_threads |-> TRUE, thread_id |-> CoreId, pc |-> FALSE]

StoppedEvent(ach, pcRead) == [type |-> "stopped", all_threads |-> ach, thread_id |-> CoreId, pc |-> pcRead]

ErrorMessage == [type |-> "error_message", all_threads |-> FALSE, thread_id |-> CoreId, pc |-> FALSE]

ErrorResponse == [type |-> "error_response", all_threads |-> FALSE, thread_id |-> CoreId, pc |-> FALSE]

\* debug_adapter.send_event(..)? / send_error_response(..)? : the notification
\* reaches the client only when the send succeeds
Sent(event, sendOk) == IF sendOk THEN <<event>> ELSE <<>>

(***************************************************************************)
(* CoreHandle::poll_core                                                   *)
(***************************************************************************)
has_changed_state(status, cached) == status # cached

\* a plausible slip: any earlier halt suppresses the "stopped" event
StoppedSuppressedAnyHalt(cached) == IsHalted(cached)

\* line 92: the "stopped" event is not re-sent after a step
StoppedSuppressed(cached) == cached = Halted("Step")

\* a plausible slip: the poll does not wait for the configuration handshake
ConfigurationAssumedDone(done) == TRUE

\* line 71: debug_adapter.configuration_is_done()
configuration_is_done(done) == done

\* a plausible slip: a failed status read leaves the cache as it was
OnReadFailureKeep(cached) == cached

\* line 144: the cache after a failed status read
OnReadFailure(cached) == Unknown

\* a plausible slip: the cache is updated before the event is sent
OnSendFailureRecorded(cached, read) == read

\* lines 82 and 113: `?` returns before line 140, the cache is not written
OnSendFailure(cached, read) == cached

\* The outcome of one poll: the events delivered, the Result and the cache.
\* cached: last_known_status; ach: all_cores_halted; done: configuration_is_done();
\* read: the result of core.status(); sendOk: whether the protocol send
\* succeeds; pcRead: whether the program counter could be read.  hwRead:
\* whether core.status() was called.
PollOutcome(cached, ach, done, read, sendOk, pcRead) ==
    IF ~configuration_is_done(done)
    THEN [events |-> <<>>, result |-> "Ok", ret |-> Unknown, post |-> cached, hwRead |-> FALSE]
    ELSE IF read = ReadErr
    THEN [events |-> <<>>, result |-> "Err", ret |-> ReadErr, post |-> OnReadFailure(cached), hwRead |-> TRUE]
    ELSE IF ~has_changed_state(read, cached)
    THEN [events |-> <<>>, result |-> "Ok", ret |-> read, post |-> read, hwRead |-> TRUE]
    ELSE IF read \in {Running, Sleeping}
    THEN IF sendOk
         THEN [events |-> <<ContinuedEvent>>, result |-> "Ok", ret |-> read, post |-> read, hwRead |-> TRUE]
         ELSE [events |-> <<>>, result |-> "Err", ret |-> OtherErr,
               post |-> OnSendFailure(cached, read), hwRead |-> TRUE]
    ELSE IF IsHalted(read)
    THEN IF StoppedSuppressed(cached)
         THEN [events |-> <<>>, result |-> "Ok", ret |-> read, post |-> read, hwRead |-> TRUE]
         ELSE IF sendOk
         THEN [events |-> <<StoppedEvent(ach, pcRead)>>, result |-> "Ok", ret |-> read, post |-> read, hwRead |-> TRUE]
         ELSE [events |-> <<>>, result |-> "Err", ret |-> OtherErr,
               post |-> OnSendFailure(cached, read), hwRead |-> TRUE]
    ELSE IF read = LockedUp
    THEN [events |-> <<ErrorMessage>>, result |-> "Err", ret |-> OtherErr, post |-> cached, hwRead |-> TRUE]
    ELSE [events |-> Sent(ErrorResponse, sendOk), result |-> "Err", ret |-> OtherErr, post |-> cached, hwRead |-> TRUE]

\* one entry of the history
LogEntry(op, pre, preAch, postAch, done, read, sendOk, out) ==
    [op |-> op, pre |-> pre, preAch |-> preAch, postAch |-> postAch, done |-> done,
     read |-> read, sendOk |-> sendOk, events |-> out.events, result |-> out.result,
     ret |-> out.ret, post |-> out.post, hwRead |-> out.hwRead]

Remember(log, entry) ==
    IF log = <<>> THEN <<entry>> ELSE <<log[Len(log)], entry>>

poll_core(done, read, sendOk, pcRead) ==
    LET out == PollOutcome(last_known_status, all_cores_halted, done, read, sendOk, pcRead)
    IN /\ last_known_status' = out.post
       /\ all_cores_halted' = all_cores_halted
       /\ statusLog' = Remember(statusLog,
              LogEntry("poll", last_known_status, all_cores_halted, all_cores_halted,
                       done, read, sendOk, out))
       /\ UNCHANGED <<bpVars, rttVars>>

PollCore ==
    \E done \in BOOLEAN, read \in StatusRead, sendOk \in BOOLEAN, pcRead \in BOOLEAN :
        poll_core(done, read, sendOk, pcRead)

(***************************************************************************)
(* CoreHandle::reset_core_status                                           *)
(***************************************************************************)
\* a plausible slip: the status the doc comment of reset_core_status names
ResetStatusUnknown == Unknown

ResetStatus == Running

ResetCoreStatus ==
    /\ last_known_status' = ResetStatus
    /\ all_cores_halted' = FALSE
    /\ statusLog' = Remember(statusLog,
           LogEntry("reset", last_known_status, all_cores_halted, all_cores_halted',
                    TRUE, ReadErr, TRUE,
                    [events |-> <<>>, result |-> "Ok", ret |-> last_known_status',
                     post |-> last_known_status', hwRead |-> FALSE]))
    /\ UNCHANGED <<bpVars, rttVars>>

StatusInit ==
    /\ last_known_status = Unknown
    /\ all_cores_halted = TRUE
    /\ statusLog = <<>>

StatusNext == PollCore \/ ResetCoreStatus

(***************************************************************************)
(* Properties of the status tracker                                        *)
(***************************************************************************)
Last == statusLog[Len(statusLog)]

First == statusLog[1]

CountType(events, t) == Cardinality({i \in DOMAIN events : events[i].type = t})

\* the last operation was a poll with configuration done that read `status`
\* successfully and found it different from the cache
ChangedPoll(e) ==
    /\ e.op = "poll"
    /\ e.done
    /\ e.read # ReadErr
    /\ e.read # e.pre

C2_AsStated ==
    (statusLog # <<>> /\ Last.op = "poll" /\ Last.done) =>
        /\ Last.read \in {LockedUp, Unknown} =>
               (Last.result = "Err" /\ last_known_status = Last.read)
        /\ Last.read = ReadErr => last_known_status = Unknown

\* C3 as stated, for polls whose sends all succeed: the second of two
\* consecutive polls that observe the same hardware status emits nothing and
\* leaves the cache as the first poll left it.
C3_AsStated ==
    (/\ Len(statusLog) = 2
     /\ First.op = "poll" /\ First.done /\ First.sendOk
     /\ Last.op = "poll" /\ Last.done /\ Last.sendOk
     /\ First.read # ReadErr
     /\ Last.read = First.read) =>
        /\ Last.events = <<>>
        /\ last_known_status = First.post

HaltAfterReset ==
    /\ Len(statusLog) = 2
    /\ First.op = "reset"
    /\ Last.op = "poll" /\ Last.done /\ IsHalted(Last.read)

\* what every reset does: cache Running, flag cleared, nothing emitted
ResetEffect ==
    (statusLog # <<>> /\ Last.op = "reset") =>
        /\ last_known_status = Running
        /\ all_cores_halted = FALSE
        /\ Last.events = <<>>

C18_ReadFailure ==
    (statusLog # <<>> /\ Last.op = "poll" /\ Last.done /\ Last.read = ReadErr) =>
        /\ last_known_status = Unknown
        /\ Last.events = <<>>
        /\ Last.result = "Err"
        /\ Last.ret = ReadErr

C18_Witness ==
    /\ statusLog # <<>>
    /\ Last.op = "poll" /\ Last.done /\ Last.read = ReadErr
    /\ Last.pre = Halted("Breakpoint")
    /\ last_known_status = Unknown

\* the event a changed poll into `status` owes the client
EventDue(status) == IF IsHalted(status) THEN "stopped" ELSE "continued"

\* a changed poll into Running, Sleeping or Halted whose event is not
\* suppressed by the Halted(Step) rule
NotifyingPoll(e) ==
    /\ ChangedPoll(e)
    /\ e.read \in {Running, Sleeping} \/ IsHalted(e.read)
    /\ ~(IsHalted(e.read) /\ e.pre = Halted("Step"))

NumAddrs == 2

NumLines == 2

MaxBps == 2

Addrs == 1..NumAddrs

Lines == 1..NumLines

\* session_data::BreakpointType: the source variant carries the resolved
\* source location (a line of the one source file); the other variant
\* carries nothing
InstructionBreakpoint == [tag |-> "InstructionBreakpoint", line |-> 0]

SourceBreakpoint(line) == [tag |-> "SourceBreakpoint", line |-> line]

BreakpointType == {InstructionBreakpoint} \cup {SourceBreakpoint(l) : l \in Lines}

IsSource(bp) == bp.breakpoint_type.tag = "SourceBreakpoint"

ActiveBreakpoint(address, type) == [address |-> address, breakpoint_type |-> type]

\* DebugInfo of a binary: the address of each line that has code, NoAddr else
NoAddr == 0

DebugInfos == [Lines -> Addrs \cup {NoAddr}]

\* debug_info.get_breakpoint_location: the closest valid location at or
\* after the requested line; ok = FALSE when there is none
get_breakpoint_location(info, line) ==
    LET valid == {l \in Lines : l >= line /\ info[l] # NoAddr}
    IN IF valid = {}
       THEN [ok |-> FALSE, address |-> NoAddr, line |-> line]
       ELSE LET l == CHOOSE m \in valid : \A k \in valid : m <= k
            IN [ok |-> TRUE, address |-> info[l], line |-> l]

\* The working state of one operation: the cache, the hardware, the number
\* of hardware calls made so far and of those that failed, the Result, and
\* the number of loop rounds started.
Begin(bps, hw) ==
    [bps |-> bps, hw |-> hw, n |-> 0, failed |-> 0, result |-> "Ok", visited |-> 0]

\* whether the next hardware call succeeds; fails: the calls that fail
HwOk(st, fails) == (st.n + 1) \notin fails

\* a plausible slip: the position found is not the one removed
RemoveHead(bps, address) ==
    IF \E i \in DOMAIN bps : bps[i].address = address THEN Tail(bps) ELSE bps

\* lines 250-259: remove the first entry with this address, if any
RemoveFirst(bps, address) ==
    LET hits == {i \in DOMAIN bps : bps[i].address = address}
    IN IF hits = {}
       THEN bps
       ELSE LET p == CHOOSE i \in hits : \A j \in hits : i <= j
            IN SubSeq(bps, 1, p - 1) \o SubSeq(bps, p + 1, Len(bps))

\* CoreHandle::set_breakpoint
set_breakpoint(st, address, type, fails) ==
    IF ~HwOk(st, fails)
    THEN [st EXCEPT !.n = st.n + 1, !.failed = st.failed + 1, !.result = "HwErr"]
    ELSE [st EXCEPT !.n = st.n + 1, !.result = "Ok",
                    !.hw = st.hw \cup {address},
                    !.bps = Append(st.bps, ActiveBreakpoint(address, type))]

\* CoreHandle::clear_breakpoint
clear_breakpoint(st, address, fails) ==
    IF ~HwOk(st, fails)
    THEN [st EXCEPT !.n = st.n + 1, !.failed = st.failed + 1, !.result = "HwErr"]
    ELSE [st EXCEPT !.n = st.n + 1, !.result = "Ok",
                    !.hw = st.hw \ {address},
                    !.bps = RemoveFirst(st.bps, address)]

\* lines 274-283: the filter of clear_breakpoints; None selects the source kind
NoFilter == [tag |-> "None", line |-> 0]

Matches(bp, filter) ==
    IF filter # NoFilter THEN bp.breakpoint_type = filter ELSE IsSource(bp)

Addresses(bps) == [i \in DOMAIN bps |-> bps[i].address]

RECURSIVE ClearEach(_, _, _)
\* lines 286-288
ClearEach(st, targets, fails) ==
    IF targets = <<>>
    THEN st
    ELSE LET r == clear_breakpoint([st EXCEPT !.visited = st.visited + 1], Head(targets), fails)
         IN IF r.result # "Ok" THEN r ELSE ClearEach(r, Tail(targets), fails)

\* CoreHandle::clear_breakpoints
clear_breakpoints(st, filter, fails) ==
    ClearEach(st, Addresses(SelectSeq(st.bps, LAMBDA bp : Matches(bp, filter))), fails)

\* CoreHandle::verify_and_set_breakpoint
verify_and_set_breakpoint(st, info, line, fails) ==
    LET loc == get_breakpoint_location(info, line)
    IN IF ~loc.ok
       THEN [st EXCEPT !.result = "ResolveErr"]
       ELSE set_breakpoint(st, loc.address, SourceBreakpoint(loc.line), fails)

\* lines 345-364: `if let Err(..)` sees only the Err of combined_path(); the
\* Result of verify_and_set_breakpoint is the Ok value of the mapped Result
\* and is dropped.  missing: the stored locations whose path is not found.
Reinstall(st, info, bp, fails, missing) ==
    IF bp.breakpoint_type.line \in missing
    THEN [st EXCEPT !.result = "RecomputeErr"]
    ELSE [verify_and_set_breakpoint(st, info, bp.breakpoint_type.line, fails)
             EXCEPT !.result = "Ok"]

RECURSIVE RecomputeEach(_, _, _, _, _)
\* lines 330-366
RecomputeEach(st, info, targets, fails, missing) ==
    IF targets = <<>>
    THEN st
    ELSE LET bp == Head(targets)
             c == clear_breakpoint([st EXCEPT !.visited = st.visited + 1], bp.address, fails)
         IN IF c.result # "Ok"
            THEN c
            ELSE LET r == Reinstall(c, info, bp, fails, missing)
                 IN IF r.result # "Ok" THEN r
                    ELSE RecomputeEach(r, info, Tail(targets), fails, missing)

\* CoreHandle::recompute_breakpoints
recompute_breakpoints(st, info, fails, missing) ==
    RecomputeEach(st, info, SelectSeq(st.bps, IsSource), fails, missing)

\* the record of one operation: its name and arguments, the cache and the
\* hardware before it, what it returned, and the operation it came after
BpEntry(op, address, type, line, missing, out) ==
    [op |-> op, address |-> address, type |-> type, line |-> line,
     missing |-> missing, pre |-> breakpoints, preHw |-> hw_breakpoints,
     result |-> out.result, visited |-> out.visited, failed |-> out.failed,
     after |-> [op |-> bpLog.op, address |-> bpLog.address, result |-> bpLog.result]]

Commit(out, entry) ==
    /\ breakpoints' = out.bps
    /\ hw_breakpoints' = out.hw
    /\ bpLog' = entry
    /\ UNCHANGED <<debug_info, statusVars, rttVars>>

CachedAddresses == {breakpoints[i].address : i \in DOMAIN breakpoints}

SourceTargets == SelectSeq(breakpoints, IsSource)

\* set_breakpoint called by a request handler; distinct: the caller keeps
\* the documented obligation to pass an address that is not cached yet
SetBreakpointBy(distinct) ==
    \E address \in Addrs, type \in BreakpointType, fails \in SUBSET {1} :
        /\ Len(breakpoints) < MaxBps
        /\ distinct => address \notin CachedAddresses
        /\ LET out == set_breakpoint(Begin(breakpoints, hw_breakpoints), address, type, fails)
           IN Commit(out, BpEntry("set", address, type, 0, {}, out))

SetBreakpoint == SetBreakpointBy(FALSE)

SetNewBreakpoint == SetBreakpointBy(TRUE)

ClearBreakpoint ==
    \E address \in Addrs, fails \in SUBSET {1} :
        LET out == clear_breakpoint(Begin(breakpoints, hw_breakpoints), address, fails)
        IN Commit(out, BpEntry("clear", address, NoFilter, 0, {}, out))

\* the loop stops at the first failing clear: failAt is that call, 0 for none
ClearBreakpoints ==
    \E filter \in BreakpointType \cup {NoFilter}, failAt \in 0..Len(breakpoints) :
        LET out == clear_breakpoints(Begin(breakpoints, hw_breakpoints), filter, {failAt})
        IN Commit(out, BpEntry("clear_all", NoAddr, filter, 0, {}, out))

VerifyAndSetBreakpoint ==
    \E line \in Lines, fails \in SUBSET {1} :
        /\ Len(breakpoints) < MaxBps
        /\ LET out == verify_and_set_breakpoint(Begin(breakpoints, hw_breakpoints),
                                                debug_info, line, fails)
           IN Commit(out, BpEntry("verify_and_set", NoAddr, NoFilter, line, {}, out))

\* at most two hardware calls for each cached source breakpoint; the loop
\* stops at the first stored location whose path is missing
RecomputeBreakpoints ==
    \E fails \in SUBSET (1..(2 * Len(SourceTargets))),
       missing \in {{}} \cup {{l} : l \in Lines} :
        LET out == recompute_breakpoints(Begin(breakpoints, hw_breakpoints),
                                         debug_info, fails, missing)
        IN Commit(out, BpEntry("recompute", NoAddr, NoFilter, 0, missing, out))

\* the binary of the session's start: every line has code
FirstBinary == [l \in Lines |-> ((l - 1) % NumAddrs) + 1]

\* a new binary is flashed: the session replaces CoreData.debug_info
LoadBinary ==
    \E info \in DebugInfos :
        /\ info # debug_info
        /\ debug_info' = info
        /\ bpLog' = BpEntry("load", NoAddr, NoFilter, 0, {}, Begin(breakpoints, hw_breakpoints))
        /\ UNCHANGED <<breakpoints, hw_breakpoints, statusVars, rttVars>>

BpInit ==
    /\ breakpoints = <<>>
    /\ hw_breakpoints = {}
    /\ debug_info = FirstBinary
    /\ bpLog = [op |-> "init", address |-> NoAddr, type |-> NoFilter, line |-> 0,
                missing |-> {}, pre |-> <<>>, preHw |-> {}, result |-> "Ok", visited |-> 0, failed |-> 0,
                after |-> [op |-> "init", address |-> NoAddr, result |-> "Ok"]]

BpNext ==
    \/ SetBreakpoint
    \/ ClearBreakpoint
    \/ ClearBreakpoints
    \/ VerifyAndSetBreakpoint
    \/ RecomputeBreakpoints
    \/ LoadBinary

(***************************************************************************)
(* Logging-channel coordinator: CoreHandle::attach_to_rtt                  *)
(***************************************************************************)
\* bound: how many channels the control block of a target announces
MaxChannels == 2

DataFormat == {"Defmt", "String"}

\* one entry of RttActiveTarget.active_channels: whether it has an up
\* channel, and its data format
ActiveChannel == [up : BOOLEAN, data_format : DataFormat]

\* the format of a channel without an up channel is never read (line 199 is
\* inside the if let of line 198): such channels are listed with one format
ChannelLists ==
    {cs \in UNION {[1..n -> ActiveChannel] : n \in 0..MaxChannels} :
        \A i \in DOMAIN cs : ~cs[i].up => cs[i].data_format = "String"}

\* up_channel.number() of the i-th active channel
ChannelNumber(i) == i - 1

\* the step of lines 180-195 that fails, or "Ok" when all of them succeed
AttachSteps == {"OpenFailed", "NoSymbol", "AttachFailed", "NewFailed", "Ok"}

\* a plausible slip: the descriptor is created as if the client had already
\* opened its window
DebuggerRttChannelOpened(number) == [channel_number |-> number, has_client_window |-> TRUE]

DebuggerRttChannel(number) == [channel_number |-> number, has_client_window |-> FALSE]

RttWindow(number, channel) == [channel_number |-> number, data_format |-> channel.data_format]

\* the working state of the loop of lines 197-214: the descriptors pushed,
\* the windows registered, the channels whose mode was set, the number of
\* set_mode calls and the Result
RttBegin == [channels |-> <<>>, windows |-> <<>>, forced |-> {}, n |-> 0, result |-> "Ok"]

\* lines 198-213: one active channel; failAt: the set_mode call that fails
AttachChannel(st, i, channel, failAt) ==
    IF ~channel.up
    THEN st
    ELSE IF channel.data_format = "Defmt" /\ st.n + 1 = failAt
    THEN [st EXCEPT !.n = st.n + 1, !.result = "Err"]
    ELSE [st EXCEPT
             !.n = IF channel.data_format = "Defmt" THEN st.n + 1 ELSE st.n,
             !.forced = IF channel.data_format = "Defmt"
                        THEN st.forced \cup {ChannelNumber(i)} ELSE st.forced,
             !.channels = Append(st.channels, DebuggerRttChannel(ChannelNumber(i))),
             !.windows = Append(st.windows, RttWindow(ChannelNumber(i), channel))]

RECURSIVE AttachChannels(_, _, _, _)
AttachChannels(st, i, active_channels, failAt) ==
    IF i > Len(active_channels)
    THEN st
    ELSE LET r == AttachChannel(st, i, active_channels[i], failAt)
         IN IF r.result # "Ok" THEN r
            ELSE AttachChannels(r, i + 1, active_channels, failAt)

\* a plausible slip: the new connection is built and then dropped
RttConnectionDropped(active_channels, channels) == <<>>

RttConnection(active_channels, channels) ==
    <<[target_rtt |-> active_channels, debugger_rtt_channels |-> channels]>>

\* The outcome of attach_to_rtt: the Result, the cached connection after
\* the call, the windows registered and the channels whose mode was set.
AttachOutcome(connection, step, active_channels, failAt) ==
    IF step # "Ok"
    THEN [result |-> "Ok", connection |-> connection, windows |-> <<>>, forced |-> {}]
    ELSE LET st == AttachChannels(RttBegin, 1, active_channels, failAt)
         IN IF st.result # "Ok"
            THEN [result |-> "Err", connection |-> connection,
                  windows |-> st.windows, forced |-> st.forced]
            ELSE [result |-> "Ok",
                  connection |-> RttConnection(active_channels, st.channels),
                  windows |-> st.windows, forced |-> st.forced]

\* the up channels in the defmt format: the channels set_mode is called for
DefmtUp(active_channels) ==
    {i \in DOMAIN active_channels :
        active_channels[i].up /\ active_channels[i].data_format = "Defmt"}

\* no channel list exists unless every step of lines 180-195 succeeded
AttachToRtt ==
    \E step \in AttachSteps, active_channels \in ChannelLists :
      \E failAt \in 0..Cardinality(DefmtUp(active_channels)) :
        LET out == AttachOutcome(rtt_connection, step, active_channels, failAt)
        IN /\ step # "Ok" => (active_channels = <<>> /\ failAt = 0)
           /\ rtt_connection' = out.connection
           /\ rttLog' = <<[op |-> "attach", pre |-> rtt_connection, step |-> step,
                           active_channels |-> active_channels, failAt |-> failAt,
                           result |-> out.result, windows |-> out.windows,
                           forced |-> out.forced,
                           retry |-> rttLog # <<>> /\ rttLog[1].op = "attach"
                                         /\ (rttLog[1].step # "Ok" \/ rttLog[1].failAt # 0)]>>
           /\ UNCHANGED <<statusVars, bpVars>>

\* line 205: the client request "rttWindowOpened" marks a channel's window
RttWindowOpened ==
    /\ rtt_connection # <<>>
    /\ \E i \in DOMAIN rtt_connection[1].debugger_rtt_channels :
           /\ ~rtt_connection[1].debugger_rtt_channels[i].has_client_window
           /\ rtt_connection' =
                  <<[rtt_connection[1] EXCEPT
                        !.debugger_rtt_channels[i].has_client_window = TRUE]>>
    /\ rttLog' = <<>>
    /\ UNCHANGED <<statusVars, bpVars>>

RttInit ==
    /\ rtt_connection = <<>>
    /\ rttLog = <<>>

RttNext == AttachToRtt \/ RttWindowOpened

Init == StatusInit /\ BpInit /\ RttInit

SpecStatus == Init /\ [][StatusNext]_vars

SpecBreakpoints == Init /\ [][BpNext]_vars

\* the breakpoint manager driven by callers that never set a cached address
BpNextDistinct ==
    \/ SetNewBreakpoint
    \/ ClearBreakpoint
    \/ ClearBreakpoints
    \/ VerifyAndSetBreakpoint
    \/ RecomputeBreakpoints
    \/ LoadBinary

SpecBreakpointsDistinct == Init /\ [][BpNextDistinct]_vars

SpecRtt == Init /\ [][RttNext]_vars

\* an attach call for which the symbol is found and every step succeeds
GoodAttach ==
    /\ AttachToRtt
    /\ rttLog'[1].step = "Ok"
    /\ rttLog'[1].failAt = 0

\* the caller retries while there is no connection, and the target
\* eventually has its control block ready: a good attach is not postponed
\* forever while the connection is absent
RetryWhileDisconnected == rtt_connection = <<>> /\ GoodAttach

SpecRttRetry == Init /\ [][RttNext]_vars /\ WF_vars(RetryWhileDisconnected)

\* the breakpoint manager driven by single set, clear and verify_and_set
\* requests against one binary
SetClearNext ==
    \/ SetBreakpoint
    \/ ClearBreakpoint
    \/ VerifyAndSetBreakpoint

SpecSetClear == Init /\ [][SetClearNext]_vars

(***************************************************************************)
(* Properties of the breakpoint manager                                    *)
(***************************************************************************)
Range(seq) == {seq[i] : i \in DOMAIN seq}

Sources(bps) == SelectSeq(bps, IsSource)

Resolved(bp) == get_breakpoint_location(debug_info, bp.breakpoint_type.line)

\* a recompute whose hardware calls all succeeded and whose paths all exist
\* (debug_info is still the binary it ran against: LoadBinary resets bpLog)
CleanRecompute == bpLog.op = "recompute" /\ bpLog.failed = 0 /\ bpLog.missing = {}

\* the cached source breakpoints, before the call, that no longer resolve
Unresolvable == {i \in DOMAIN Sources(bpLog.pre) : ~Resolved(Sources(bpLog.pre)[i]).ok}

FirstUnresolvable == CHOOSE i \in Unresolvable : \A j \in Unresolvable : i <= j

\* the cache holds a source breakpoint for bp at its new address, installed
Reinstalled(bp) ==
    LET loc == Resolved(bp)
    IN /\ loc.ok
       /\ ActiveBreakpoint(loc.address, SourceBreakpoint(loc.line)) \in Range(breakpoints)
       /\ loc.address \in hw_breakpoints

\* C4 as stated: when the re-resolution of a source breakpoint fails,
\* recompute_breakpoints stops there with an error: the earlier source
\* breakpoints are reinstalled and the later ones are not processed.
C4_AsStated ==
    (CleanRecompute /\ Unresolvable # {}) =>
        /\ bpLog.result = "RecomputeErr"
        /\ bpLog.visited = FirstUnresolvable
        /\ \A i \in 1..(FirstUnresolvable - 1) : Reinstalled(Sources(bpLog.pre)[i])

\* C5 as stated: after a successful recompute_breakpoints every source
\* breakpoint cached before is cached and installed at the address its
\* stored location resolves to, and there are as many as before.
C5_AsStated ==
    (bpLog.op = "recompute" /\ bpLog.result = "Ok") =>
        /\ Len(Sources(breakpoints)) = Len(Sources(bpLog.pre))
        /\ \A i \in DOMAIN Sources(bpLog.pre) : Reinstalled(Sources(bpLog.pre)[i])

\* C6 as stated: the addresses in the cache are exactly the addresses
\* installed in hardware.
C6_AsStated == CachedAddresses = hw_breakpoints

\* C8 as stated: after a successful clear_breakpoints(None) no source
\* breakpoint is cached and every other breakpoint cached before is still
\* cached and still installed.
C8_AsStated ==
    (bpLog.op = "clear_all" /\ bpLog.type = NoFilter /\ bpLog.result = "Ok") =>
        /\ Sources(breakpoints) = <<>>
        /\ \A i \in DOMAIN bpLog.pre :
               ~IsSource(bpLog.pre[i]) =>
                   /\ bpLog.pre[i] \in Range(breakpoints)
                   /\ bpLog.pre[i].address \in hw_breakpoints

\* C12 as stated: no two records of the cache have the same address (with
\* set_breakpoint only called for addresses that are not cached).
C12_AsStated ==
    \A i, j \in DOMAIN breakpoints :
        i # j => breakpoints[i].address # breakpoints[j].address

\* a successful set_breakpoint of an address that was not cached
FreshSet(e) ==
    /\ e.op = "set"
    /\ e.result = "Ok"
    /\ e.address \notin {e.pre[i].address : i \in DOMAIN e.pre}

\* C13: a successful set_breakpoint of an address that is not cached,
\* followed by a successful clear_breakpoint of that address, leaves the
\* cache as it was before the set (no entry for the address, every other
\* entry in place) and the address not installed.
C13_SetThenClear ==
    [][(/\ FreshSet(bpLog)
        /\ bpLog'.op = "clear" /\ bpLog'.result = "Ok"
        /\ bpLog'.address = bpLog.address) =>
           /\ breakpoints' = bpLog.pre
           /\ \A i \in DOMAIN breakpoints' : breakpoints'[i].address # bpLog.address
           /\ bpLog.address \notin hw_breakpoints']_vars

C13_Witness ==
    /\ bpLog.op = "clear" /\ bpLog.result = "Ok"
    /\ bpLog.after = [op |-> "set", address |-> bpLog.address, result |-> "Ok"]
    /\ Len(bpLog.pre) = 2
    /\ bpLog.pre[1].address # bpLog.address
    /\ bpLog.pre[2].address = bpLog.address
    /\ breakpoints = <<bpLog.pre[1]>>
    /\ bpLog.address \notin hw_breakpoints
    /\ bpLog.pre[1].address \in hw_breakpoints

\* C16 as stated: every breakpoint that is not a source breakpoint is still
\* cached, and still installed, after recompute_breakpoints.
C16_AsStated ==
    bpLog.op = "recompute" =>
        \A i \in DOMAIN bpLog.pre :
            ~IsSource(bpLog.pre[i]) =>
                /\ bpLog.pre[i] \in Range(breakpoints)
                /\ bpLog.pre[i].address \in bpLog.preHw =>
                       bpLog.pre[i].address \in hw_breakpoints

\* the breakpoints clear_breakpoints(filter) selected, in cache order
Matched(e) == SelectSeq(e.pre, LAMBDA bp : Matches(bp, e.type))

\* C17 as stated: a failed hardware install records nothing, a failed
\* hardware clear removes nothing, and after clear_breakpoints stopped at a
\* failing clear the matched breakpoints from that one on are still cached
\* and still installed.
C17_AsStated ==
    /\ (bpLog.op \in {"set", "clear"} /\ bpLog.failed > 0) =>
           /\ bpLog.result = "HwErr"
           /\ breakpoints = bpLog.pre
    /\ (bpLog.op = "clear_all" /\ bpLog.failed > 0) =>
           /\ bpLog.result = "HwErr"
           /\ \A j \in bpLog.visited..Len(Matched(bpLog)) :
                  /\ Matched(bpLog)[j] \in Range(breakpoints)
                  /\ Matched(bpLog)[j].address \in bpLog.preHw =>
                         Matched(bpLog)[j].address \in hw_breakpoints

(***************************************************************************)
(* Properties of the logging-channel coordinator                           *)
(***************************************************************************)
LastAttach == rttLog[1]

\* the attach failed somewhere: at a step of lines 180-195, or at a
\* set_mode call
AttachFailed(a) == a.step # "Ok" \/ a.failAt # 0

\* C7 as stated: whatever step of attach_to_rtt fails, it returns success
\* and the cached connection is what it was before the call.
C7_AsStated ==
    (rttLog # <<>> /\ AttachFailed(LastAttach)) =>
        /\ LastAttach.result = "Ok"
        /\ rtt_connection = LastAttach.pre

\* the active channels that have an up channel
UpChannels(active_channels) == {i \in DOMAIN active_channels : active_channels[i].up}

\* C14: after an attach in which every step succeeds, the cache holds a new
\* connection over the discovered channels, whatever it held before, with
\* one descriptor per up channel, in channel order, each with
\* has_client_window = false; one window was registered per up channel; and
\* the mode was forced for exactly the up channels in the defmt format.
C14_SuccessfulAttach ==
    (rttLog # <<>> /\ ~AttachFailed(LastAttach)) =>
        LET ac == LastAttach.active_channels
            up == UpChannels(ac)
        IN /\ LastAttach.result = "Ok"
           /\ rtt_connection # <<>>
           /\ rtt_connection[1].target_rtt = ac
           /\ LET ds == rtt_connection[1].debugger_rtt_channels
              IN /\ Len(ds) = Cardinality(up)
                 /\ {ds[k].channel_number : k \in DOMAIN ds} = {ChannelNumber(i) : i \in up}
                 /\ \A k \in DOMAIN ds : ~ds[k].has_client_window
                 /\ \A k, l \in DOMAIN ds : k < l => ds[k].channel_number < ds[l].channel_number
           /\ LET ws == LastAttach.windows
              IN /\ Len(ws) = Cardinality(up)
                 /\ {ws[k].channel_number : k \in DOMAIN ws} = {ChannelNumber(i) : i \in up}
                 /\ \A k \in DOMAIN ws :
                        ws[k].data_format = ac[ws[k].channel_number + 1].data_format
           /\ LastAttach.forced = {ChannelNumber(i) : i \in DefmtUp(ac)}

\* a successful attach over a defmt and a string up channel, replacing a
\* connection whose window had been opened by the client
C14_Witness ==
    /\ rttLog # <<>> /\ ~AttachFailed(LastAttach)
    /\ LastAttach.pre # <<>>
    /\ \E k \in DOMAIN LastAttach.pre[1].debugger_rtt_channels :
           LastAttach.pre[1].debugger_rtt_channels[k].has_client_window
    /\ LastAttach.pre[1].target_rtt # LastAttach.active_channels
    /\ Cardinality(UpChannels(LastAttach.active_channels)) = 2
    /\ Cardinality(DefmtUp(LastAttach.active_channels)) = 1
    /\ Len(rtt_connection[1].debugger_rtt_channels) = 2
    /\ Cardinality(LastAttach.forced) = 1

\* the call reached line 215 and stored its descriptors
Stored(a) == a.step = "Ok" /\ a.result = "Ok"

\* C15 as stated: every window an attach call registers belongs to a
\* descriptor that the same call stored in the cache; a call that stores
\* nothing registers no window.
C15_AsStated ==
    rttLog # <<>> =>
        \A k \in DOMAIN LastAttach.windows :
            /\ Stored(LastAttach)
            /\ rtt_connection # <<>>
            /\ \E d \in DOMAIN rtt_connection[1].debugger_rtt_channels :
                   rtt_connection[1].debugger_rtt_channels[d].channel_number =
                       LastAttach.windows[k].channel_number

\* C19: an attach call in which every step succeeds leaves a connection in
\* the cache, also when it follows failed calls that left none; and when a
\* good attach is not postponed forever while there is no connection, there
\* is eventually a connection, which then stays.
C19_RetryConnects ==
    /\ []((rttLog # <<>> /\ ~AttachFailed(LastAttach)) => rtt_connection # <<>>)
    /\ []((rttLog # <<>> /\ AttachFailed(LastAttach) /\ LastAttach.pre = <<>>)
              => rtt_connection = <<>>)
    /\ <>[](rtt_connection # <<>>)

\* a good attach right after a failed one that had left no connection
C19_Witness ==
    /\ rttLog # <<>> /\ ~AttachFailed(LastAttach)
    /\ LastAttach.retry
    /\ LastAttach.pre = <<>>
    /\ rtt_connection # <<>>

====
